---- MODULE Spec2Model ----
(***************************************************************************)
(* A model of express-idempotency: the idempotency() middleware chain of   *)
(* index.js (lru and redis cache engines) and of the older single-engine   *)
(* entry point, the check step, the store step registered on the           *)
(* response's one-shot 'end' event, the local LRU cache provider and the   *)
(* redis client the remote engine talks to.                                *)
(*                                                                         *)
(* JavaScript runs every callback to completion, so each action below is   *)
(* one callback: the synchronous part of the chain for an arriving         *)
(* request, the continuation after an awaited redis reply, and the 'end'   *)
(* handler at completion of the downstream pipeline.                       *)
(***************************************************************************)
EXTENDS Integers, Sequences, FiniteSets, TLC

\* ------------------------------------------------------------------ bounds
\* Number of requests that enter the gate in one run.
MaxReq == 3
\* Number of requests in a run on the local engine alone (SpecLocal).
MaxLocalReq == 4
\* Number of requests in a run with repeated 'end' events (SpecEnds), and the
\* number of 'end' events one response may emit there.
MaxEndReq == 2
MaxEnds == 2

\* The request slots; a run uses the first MaxReq, MaxLocalReq or MaxEndReq.
Reqs == 1..MaxLocalReq

\* ------------------------------------------------------------ JS values
Undefined == [t |-> "undefined"]
Null == [t |-> "null"]
Num(n) == [t |-> "number", n |-> n]
Str(s) == [t |-> "string", s |-> s]
\* A header object: a set of <<name, value>> pairs, one pair per name.
Headers(h) == [t |-> "object", h |-> h]

\* JavaScript truthiness, as `!x` and `if (x)` decide it.
Truthy(v) ==
    CASE v.t = "undefined" -> FALSE
      [] v.t = "null" -> FALSE
      [] v.t = "string" -> v.s # ""
      [] v.t = "number" -> v.n # 0
      [] OTHER -> TRUE

\* obj.statusCode / obj.headers / obj.body: a property the value does not have
\* (any property of a string) reads as undefined.
Prop(v, f) == IF v.t = "response" THEN v[f] ELSE Undefined

\* String(v), the conversion the redis client applies to a command argument
\* that is neither a string nor a buffer.
toString(v) ==
    CASE v.t = "string" -> v
      [] v.t = "number" -> Str("<number>")
      [] v.t = "undefined" -> Str("undefined")
      [] v.t = "null" -> Str("null")
      [] OTHER -> Str("[object Object]")

\* ------------------------------------------------------------- requests
\* The routes requests are sent to: two methods on one path, and a second path.
Routes == {<<"GET", "/a">>, <<"POST", "/a">>, <<"POST", "/b">>}
\* req.get('Idempotency-Key'): no such header, or a token.
Tokens == {Undefined, Str("t1")}
Request(route, token) == [method |-> route[1], path |-> route[2], token |-> token]
\* A token on every route; no header on one route.
Requests ==
    {Request(rt, Str("t1")) : rt \in Routes}
        \cup {Request(<<"POST", "/a">>, Undefined)}
NoRequest == [method |-> "-", path |-> "-", token |-> Undefined]

\* The responses the downstream pipeline may complete a request with.
Created(loc, body) ==
    [statusCode |-> Num(201), headers |-> Headers({<<"Location", loc>>}),
     body |-> Str(body)]
Failed ==
    [statusCode |-> Num(500), headers |-> Headers({}), body |-> Str("error")]
Responses == {Created("/r/1", "one"), Failed}

\* The response object as the framework hands it to the chain.
FreshRes == [statusCode |-> Num(200), headers |-> Headers({}), body |-> Undefined]

\* res.set(name, value)
SetHeader(hs, name, value) ==
    Headers({p \in hs.h : p[1] # name} \cup {<<name, value>>})

\* res.set(obj): every own property of obj is set; for..in over undefined (or
\* over a string's missing property) sets nothing.
SetHeaders(hs, obj) ==
    IF obj.t = "object"
    THEN Headers({p \in hs.h : \A q \in obj.h : q[1] # p[1]} \cup obj.h)
    ELSE hs

\* --------------------------------------------------- lib/generate-cache-key
\* A key generator that drops the route and keys on the token alone.
generateCacheKeyTokenOnly(req, idempotencyKey) ==
    <<"*", "*", toString(idempotencyKey).s>>

\* generateCacheKey(req, idempotencyKey): the composite of method, path and
\* token, used verbatim.
generateCacheKey(req, idempotencyKey) ==
    <<req.method, req.path, toString(idempotencyKey).s>>

Keys == {generateCacheKey(q, q.token) : q \in {x \in Requests : Truthy(x.token)}}

\* ----------------------------------------------------- lib/cache-provider
\* The local store: a fixed-capacity least-recently-used cache, kept as the
\* sequence of its entries from least to most recently used.
Capacity == 2

Entry(k, v) == [k |-> k, v |-> v]

Without(c, k) == SelectSeq(c, LAMBDA e : e.k # k)

Has(c, k) == \E i \in 1..Len(c) : c[i].k = k

Peek(c, k) ==
    IF Has(c, k) THEN (CHOOSE e \in {c[i] : i \in 1..Len(c)} : e.k = k).v
    ELSE Undefined

\* A lookup that leaves the order of the entries alone.
cacheGetNoTouch(c, k) == [value |-> Peek(c, k), cache |-> c]

\* cache.get(key): the stored value (undefined when absent); a found entry
\* becomes the most recently used one.
cacheGet(c, k) ==
    [value |-> Peek(c, k),
     cache |-> IF Has(c, k) THEN Append(Without(c, k), Entry(k, Peek(c, k))) ELSE c]

\* cache.set(key, value): insert or overwrite as most recently used; past
\* capacity the least recently used entry is dropped.
cacheSet(c, k, v) ==
    LET put == Append(Without(c, k), Entry(k, v))
    IN  IF Len(put) > Capacity THEN Tail(put) ELSE put

\* ------------------------------------------------------------------ state
VARIABLES
    gate,       \* what idempotency(options) returned: the chain, or the throw
    req,        \* req[r]: the request (method, path, Idempotency-Key header)
    pc,         \* pc[r]: where request r is
    res,        \* res[r]: the response object of request r
    onEnd,      \* onEnd[r]: the listener res.once('end', ...) holds, or "none"
    cache,      \* the module-level LRU cache of lib/cache-provider
    redisDb,    \* the remote store: key -> value (Null when absent)
    redisQ,     \* commands sent on the redis client, not yet answered
    lookup,     \* lookup[r]: outcome of the check step's store read
    gets,       \* gets[r]: store reads issued for r
    sets,       \* sets[r]: store writes issued for r
    unhandled,  \* rejections no handler caught: <<r, command>>
    doneBefore, \* doneBefore[r]: the same-key requests completed when r arrived
    evicted,    \* keys the LRU cache has dropped for capacity
    lookupKey,  \* lookupKey[r]: the key the check step read the store with
    storeKey,   \* storeKey[r]: the key the store step wrote the store with
    used,       \* keys of the local store, from least to most recently used
    inserted,   \* keys of the local store, in the order they were first stored
    ends        \* ends[r]: 'end' events the response of r has emitted

vars == <<gate, req, pc, res, onEnd, cache, redisDb, redisQ, lookup, gets, sets,
          unhandled, doneBefore, evicted, lookupKey, storeKey, used, inserted, ends>>

\* No key: the step did not touch the store.
NoKey == <<>>

Unbuilt == [status |-> "unbuilt", file |-> "-", cacheEngine |-> "-", chain |-> <<>>]

Init ==
    /\ gate = Unbuilt
    /\ req = [r \in Reqs |-> NoRequest]
    /\ pc = [r \in Reqs |-> "idle"]
    /\ res = [r \in Reqs |-> FreshRes]
    /\ onEnd = [r \in Reqs |-> "none"]
    /\ cache = <<>>
    /\ redisDb = [k \in Keys |-> Null]
    /\ redisQ = <<>>
    /\ lookup = [r \in Reqs |-> "none"]
    /\ gets = [r \in Reqs |-> 0]
    /\ sets = [r \in Reqs |-> 0]
    /\ unhandled = {}
    /\ doneBefore = [r \in Reqs |-> {}]
    /\ evicted = {}
    /\ lookupKey = [r \in Reqs |-> NoKey]
    /\ storeKey = [r \in Reqs |-> NoKey]
    /\ used = <<>>
    /\ inserted = <<>>
    /\ ends = [r \in Reqs |-> 0]

\* ------------------------------------------------------------ construction
\* options.cacheEngine as a caller may give it.
CacheEngines == {"lru", "redis", "memcached"}

\* A constructor without the guard: an unknown engine gets an empty chain.
idempotencyChainUnchecked(cacheEngine) ==
    [status |-> "built", file |-> "index.js", cacheEngine |-> cacheEngine,
     chain |-> IF cacheEngine = "lru"
               THEN <<"expressEnd", "checkInLRUCacheMw", "storeInLRUCacheMw">>
               ELSE <<"expressEnd", "checkInRedisMw", "storeInRedisMw">>]

\* index.js: idempotency(options). An unknown engine throws before connect()
\* builds the chain.
idempotencyChain(cacheEngine) ==
    IF cacheEngine # "lru" /\ cacheEngine # "redis"
    THEN [status |-> "threw", file |-> "index.js", cacheEngine |-> cacheEngine,
          chain |-> <<>>]
    ELSE [status |-> "built", file |-> "index.js", cacheEngine |-> cacheEngine,
          chain |-> IF cacheEngine = "lru"
                    THEN <<"expressEnd", "checkInLRUCacheMw", "storeInLRUCacheMw">>
                    ELSE <<"expressEnd", "checkInRedisMw", "storeInRedisMw">>]

idempotency(cacheEngine) ==
    /\ gate.status = "unbuilt"
    /\ gate' = idempotencyChain(cacheEngine)
    /\ UNCHANGED <<req, pc, res, onEnd, cache, redisDb, redisQ, lookup, gets, sets,
                   unhandled, doneBefore, evicted, lookupKey, storeKey, used, inserted, ends>>

\* The older entry point: idempotency(options) reads no option and always
\* builds the local chain.
legacyChain(cacheEngine) ==
    [status |-> "built", file |-> "legacy", cacheEngine |-> cacheEngine,
     chain |-> <<"expressEnd", "checkMw", "storeMw">>]

idempotencyLegacy(cacheEngine) ==
    /\ gate.status = "unbuilt"
    /\ gate' = legacyChain(cacheEngine)
    /\ UNCHANGED <<req, pc, res, onEnd, cache, redisDb, redisQ, lookup, gets, sets,
                   unhandled, doneBefore, evicted, lookupKey, storeKey, used, inserted, ends>>

\* ------------------------------------------------------------ check step
\* The replay: res.status(stored.statusCode); res.set(stored.headers);
\* res.set('X-Cache', 'HIT'); res.send(stored.body).
Replay(rs, storedResponse) ==
    [statusCode |-> Prop(storedResponse, "statusCode"),
     headers |-> SetHeader(SetHeaders(rs.headers, Prop(storedResponse, "headers")),
                           "X-Cache", "HIT"),
     body |-> Prop(storedResponse, "body")]

\* What a check step hands back: whether it called next(), the response
\* object, the cache, the store reads it made and what the read found.
Checked(next, rs, c, n, found) ==
    [next |-> next, res |-> rs, cache |-> c, gets |-> n, lookup |-> found]

\* A check step whose HIT branch replays and then falls through to next().
checkInLRUCacheMwFallThrough(rq, rs, c) ==
    LET idempotencyKey == rq.token
        cacheKey == generateCacheKey(rq, idempotencyKey)
        got == cacheGet(c, cacheKey)
        storedResponse == got.value
    IN  IF ~Truthy(idempotencyKey) THEN Checked(TRUE, rs, c, 0, "none")
        ELSE IF ~Truthy(storedResponse) THEN Checked(TRUE, rs, got.cache, 1, "miss")
        ELSE Checked(TRUE, Replay(rs, storedResponse), got.cache, 1, "hit")

\* A check step that writes the response it replays back into the cache.
checkInLRUCacheMwWriteBack(rq, rs, c) ==
    LET idempotencyKey == rq.token
        cacheKey == generateCacheKey(rq, idempotencyKey)
        got == cacheGet(c, cacheKey)
        storedResponse == got.value
    IN  IF ~Truthy(idempotencyKey) THEN Checked(TRUE, rs, c, 0, "none")
        ELSE IF ~Truthy(storedResponse) THEN Checked(TRUE, rs, got.cache, 1, "miss")
        ELSE Checked(FALSE, Replay(rs, storedResponse),
                     cacheSet(got.cache, cacheKey,
                              [t |-> "response"] @@ Replay(rs, storedResponse)),
                     1, "hit")

\* A check step that serves a stored response once: the HIT branch takes the
\* entry out of the cache.
checkInLRUCacheMwConsume(rq, rs, c) ==
    LET idempotencyKey == rq.token
        cacheKey == generateCacheKey(rq, idempotencyKey)
        got == cacheGet(c, cacheKey)
        storedResponse == got.value
    IN  IF ~Truthy(idempotencyKey) THEN Checked(TRUE, rs, c, 0, "none")
        ELSE IF ~Truthy(storedResponse) THEN Checked(TRUE, rs, got.cache, 1, "miss")
        ELSE Checked(FALSE, Replay(rs, storedResponse), Without(c, cacheKey), 1, "hit")

\* A check step with the test of the lookup inverted: it replays what it did
\* not find and forwards what it found.
checkInLRUCacheMwInverted(rq, rs, c) ==
    LET idempotencyKey == rq.token
        cacheKey == generateCacheKey(rq, idempotencyKey)
        got == cacheGet(c, cacheKey)
        storedResponse == got.value
    IN  IF ~Truthy(idempotencyKey) THEN Checked(TRUE, rs, c, 0, "none")
        ELSE IF Truthy(storedResponse) THEN Checked(TRUE, rs, got.cache, 1, "miss")
        ELSE Checked(FALSE, Replay(rs, storedResponse), got.cache, 1, "hit")

\* index.js: checkInLRUCacheMw(req, res, next)
checkInLRUCacheMw(rq, rs, c) ==
    LET idempotencyKey == rq.token
        cacheKey == generateCacheKey(rq, idempotencyKey)
        got == cacheGet(c, cacheKey)
        storedResponse == got.value
    IN  IF ~Truthy(idempotencyKey) THEN Checked(TRUE, rs, c, 0, "none")
        ELSE IF ~Truthy(storedResponse) THEN Checked(TRUE, rs, got.cache, 1, "miss")
        ELSE Checked(FALSE, Replay(rs, storedResponse), got.cache, 1, "hit")

\* The older entry point's checkMw(req, res, next)
checkMw(rq, rs, c) ==
    LET idempotencyKey == rq.token
        cacheKey == generateCacheKey(rq, idempotencyKey)
        got == cacheGet(c, cacheKey)
        storedResponse == got.value
    IN  IF ~Truthy(idempotencyKey) THEN Checked(TRUE, rs, c, 0, "none")
        ELSE IF ~Truthy(storedResponse) THEN Checked(TRUE, rs, got.cache, 1, "miss")
        ELSE Checked(FALSE, Replay(rs, storedResponse), got.cache, 1, "hit")

\* A redis check step that sends the get and calls next() without awaiting
\* the reply.
checkInRedisMwNoAwait(rq) ==
    LET idempotencyKey == rq.token
        cacheKey == generateCacheKey(rq, idempotencyKey)
    IN  IF ~Truthy(idempotencyKey) THEN [next |-> TRUE, cmds |-> <<>>]
        ELSE [next |-> TRUE, cmds |-> <<[op |-> "get", key |-> cacheKey]>>]

\* index.js: checkInRedisMw, up to the await: either next() at once, or the
\* get command the request then waits for.
checkInRedisMw(rq) ==
    LET idempotencyKey == rq.token
        cacheKey == generateCacheKey(rq, idempotencyKey)
    IN  IF ~Truthy(idempotencyKey) THEN [next |-> TRUE, cmds |-> <<>>]
        ELSE [next |-> FALSE, cmds |-> <<[op |-> "get", key |-> cacheKey]>>]

\* index.js: checkInRedisMw, after the await returned storedResponse.
checkInRedisResumed(rs, storedResponse) ==
    IF ~Truthy(storedResponse) THEN Checked(TRUE, rs, <<>>, 0, "miss")
    ELSE Checked(FALSE, Replay(rs, storedResponse), <<>>, 0, "hit")

\* ------------------------------------------------------------ store step
\* The object the 'end' handlers build from the response.
responseToStore(rs) ==
    [t |-> "response", statusCode |-> rs.statusCode, body |-> rs.body,
     headers |-> rs.headers]

Stored(c, n) == [cache |-> c, sets |-> n]

\* An 'end' listener that stores without testing the token.
storeInLRUCacheMwUnguarded(rq, rs, c) ==
    Stored(cacheSet(c, generateCacheKey(rq, rq.token), responseToStore(rs)), 1)

\* index.js: the 'end' listener of storeInLRUCacheMw
storeInLRUCacheMw(rq, rs, c) ==
    LET idempotencyKey == rq.token
        cacheKey == generateCacheKey(rq, idempotencyKey)
    IN  IF Truthy(idempotencyKey)
        THEN Stored(cacheSet(c, cacheKey, responseToStore(rs)), 1)
        ELSE Stored(c, 0)

\* The older entry point: the 'end' listener of storeMw
storeMw(rq, rs, c) ==
    LET idempotencyKey == rq.token
        cacheKey == generateCacheKey(rq, idempotencyKey)
    IN  IF Truthy(idempotencyKey)
        THEN Stored(cacheSet(c, cacheKey, responseToStore(rs)), 1)
        ELSE Stored(c, 0)

\* index.js: the 'end' listener of storeInRedisMw, up to its await: the set
\* command it sends. The client turns the object argument into a string.
storeInRedisMw(rq, rs) ==
    LET idempotencyKey == rq.token
        cacheKey == generateCacheKey(rq, idempotencyKey)
    IN  IF Truthy(idempotencyKey)
        THEN <<[op |-> "set", key |-> cacheKey,
                arg |-> toString(responseToStore(rs))]>>
        ELSE <<>>

\* -------------------------------------------------------------- actions
KeysOf(c) == {c[i].k : i \in 1..Len(c)}

\* The chain forwards request r: storeMw of the chain registers its one-shot
\* 'end' listener and calls next(), which enters the downstream pipeline.
Forwarded(r) ==
    /\ pc' = [pc EXCEPT ![r] = "downstream"]
    /\ onEnd' = [onEnd EXCEPT ![r] = gate.chain[3]]

\* The chain answered request r itself: the store step is never reached.
Answered(r) ==
    /\ pc' = [pc EXCEPT ![r] = "replayed"]
    /\ UNCHANGED onEnd

\* The completed requests that carried the same token on the same route as q.
CompletedSame(q) ==
    {x \in Reqs : pc[x] = "completed" /\ Truthy(q.token) /\ req[x] = q}

\* Key k becomes the most recently used one.
Touch(u, k) == Append(SelectSeq(u, LAMBDA x : x # k), k)
\* Key k is recorded the first time it is stored.
First(u, k) == IF \E i \in 1..Len(u) : u[i] = k THEN u ELSE Append(u, k)

\* Requests are numbered in the order they arrive.
NextToArrive(r) == pc[r] = "idle" /\ \A x \in 1..(r - 1) : pc[x] # "idle"

\* A request enters a chain with a local check step (index.js 'lru', or the
\* older entry point): the whole chain runs synchronously.
RequestLocal(r, q) ==
    /\ gate.status = "built" /\ gate.chain[2] # "checkInRedisMw"
    /\ NextToArrive(r)
    /\ LET o == IF gate.chain[2] = "checkMw" THEN checkMw(q, FreshRes, cache)
                ELSE checkInLRUCacheMw(q, FreshRes, cache)
       IN  /\ res' = [res EXCEPT ![r] = o.res]
           /\ cache' = o.cache
           /\ gets' = [gets EXCEPT ![r] = @ + o.gets]
           /\ lookup' = [lookup EXCEPT ![r] = o.lookup]
           /\ lookupKey' = [lookupKey EXCEPT ![r] =
                                IF o.gets > 0 THEN generateCacheKey(q, q.token)
                                ELSE NoKey]
           /\ used' = IF o.lookup = "hit"
                      THEN Touch(used, generateCacheKey(q, q.token)) ELSE used
           /\ IF o.next THEN Forwarded(r) ELSE Answered(r)
    /\ req' = [req EXCEPT ![r] = q]
    /\ doneBefore' = [doneBefore EXCEPT ![r] = CompletedSame(q)]
    /\ UNCHANGED <<gate, redisDb, redisQ, sets, unhandled, evicted, storeKey, inserted,
                   ends>>

\* A request enters the redis chain: without a token it is forwarded at once,
\* with one the get command is sent and the middleware awaits the reply.
RequestRedis(r, q) ==
    /\ gate.status = "built" /\ gate.chain[2] = "checkInRedisMw"
    /\ NextToArrive(r)
    /\ LET o == checkInRedisMw(q)
       IN  /\ redisQ' = redisQ \o [i \in 1..Len(o.cmds) |->
                                     [op |-> o.cmds[i].op, key |-> o.cmds[i].key, r |-> r]]
           /\ gets' = [gets EXCEPT ![r] = @ + Len(o.cmds)]
           /\ lookupKey' = [lookupKey EXCEPT ![r] =
                                IF o.cmds # <<>> THEN o.cmds[1].key ELSE NoKey]
           /\ IF o.next
              THEN Forwarded(r) /\ UNCHANGED lookup
              ELSE /\ pc' = [pc EXCEPT ![r] = "awaitGet"]
                   /\ lookup' = [lookup EXCEPT ![r] = "pending"]
                   /\ UNCHANGED onEnd
    /\ req' = [req EXCEPT ![r] = q]
    /\ doneBefore' = [doneBefore EXCEPT ![r] = CompletedSame(q)]
    /\ UNCHANGED <<gate, res, cache, redisDb, sets, unhandled, evicted, storeKey,
                   used, inserted, ends>>

\* The redis client answers its commands in the order they were sent.
\* A get is answered: checkInRedisMw resumes with the stored value.
RedisGetReply ==
    /\ redisQ # <<>> /\ Head(redisQ).op = "get"
    /\ LET r == Head(redisQ).r
           o == checkInRedisResumed(res[r], redisDb[Head(redisQ).key])
       IN  /\ res' = [res EXCEPT ![r] = o.res]
           /\ lookup' = [lookup EXCEPT ![r] = o.lookup]
           /\ IF o.next THEN Forwarded(r) ELSE Answered(r)
    /\ redisQ' = Tail(redisQ)
    /\ UNCHANGED <<gate, req, cache, redisDb, gets, sets, unhandled, doneBefore,
                   evicted, lookupKey, storeKey, used, inserted, ends>>

\* A get fails: the await throws inside the async middleware, nothing
\* catches it, next() is never called and nothing is sent.
RedisGetError ==
    /\ redisQ # <<>> /\ Head(redisQ).op = "get"
    /\ LET r == Head(redisQ).r
       IN  /\ pc' = [pc EXCEPT ![r] = "rejected"]
           /\ lookup' = [lookup EXCEPT ![r] = "failed"]
           /\ unhandled' = unhandled \cup {<<r, "get">>}
    /\ redisQ' = Tail(redisQ)
    /\ UNCHANGED <<gate, req, res, onEnd, cache, redisDb, gets, sets, doneBefore,
                   evicted, lookupKey, storeKey, used, inserted, ends>>

\* A set is answered: the value is in the remote store.
RedisSetReply ==
    /\ redisQ # <<>> /\ Head(redisQ).op = "set"
    /\ redisDb' = [redisDb EXCEPT ![Head(redisQ).key] = Head(redisQ).arg]
    /\ redisQ' = Tail(redisQ)
    /\ UNCHANGED <<gate, req, pc, res, onEnd, cache, lookup, gets, sets, unhandled,
                   doneBefore, evicted, lookupKey, storeKey, used, inserted, ends>>

\* A set fails: the async 'end' listener rejects and nothing catches it.
RedisSetError ==
    /\ redisQ # <<>> /\ Head(redisQ).op = "set"
    /\ unhandled' = unhandled \cup {<<Head(redisQ).r, "set">>}
    /\ redisQ' = Tail(redisQ)
    /\ UNCHANGED <<gate, req, pc, res, onEnd, cache, redisDb, lookup, gets, sets,
                   doneBefore, evicted, lookupKey, storeKey, used, inserted, ends>>

\* res.on('end', ...): the listener stays registered.
listenOn(listener) == listener

\* res.once('end', ...): the listener is removed when the event fires.
once(listener) == "none"

\* The response of r emits 'end' with the content x: the listener registered
\* by the store step, if it is still there, runs.
EmitEnd(r, x) ==
    /\ onEnd' = [onEnd EXCEPT ![r] = once(@)]
    /\ ends' = [ends EXCEPT ![r] = @ + 1]
    /\ CASE onEnd[r] = "storeInLRUCacheMw" ->
              LET o == storeInLRUCacheMw(req[r], x, cache)
              IN  /\ cache' = o.cache
                  /\ sets' = [sets EXCEPT ![r] = @ + o.sets]
                  /\ storeKey' = [storeKey EXCEPT ![r] =
                                    IF o.sets > 0 THEN o.cache[Len(o.cache)].k ELSE @]
                  /\ used' = IF o.sets > 0
                             THEN Touch(used, o.cache[Len(o.cache)].k) ELSE used
                  /\ inserted' = IF o.sets > 0
                                 THEN First(inserted, o.cache[Len(o.cache)].k)
                                 ELSE inserted
                  /\ UNCHANGED redisQ
         [] onEnd[r] = "storeMw" ->
              LET o == storeMw(req[r], x, cache)
              IN  /\ cache' = o.cache
                  /\ sets' = [sets EXCEPT ![r] = @ + o.sets]
                  /\ storeKey' = [storeKey EXCEPT ![r] =
                                    IF o.sets > 0 THEN o.cache[Len(o.cache)].k ELSE @]
                  /\ used' = IF o.sets > 0
                             THEN Touch(used, o.cache[Len(o.cache)].k) ELSE used
                  /\ inserted' = IF o.sets > 0
                                 THEN First(inserted, o.cache[Len(o.cache)].k)
                                 ELSE inserted
                  /\ UNCHANGED redisQ
         [] onEnd[r] = "storeInRedisMw" ->
              LET cmds == storeInRedisMw(req[r], x)
              IN  /\ redisQ' = redisQ \o [i \in 1..Len(cmds) |->
                                            [op |-> cmds[i].op, key |-> cmds[i].key,
                                             arg |-> cmds[i].arg, r |-> r]]
                  /\ sets' = [sets EXCEPT ![r] = @ + Len(cmds)]
                  /\ storeKey' = [storeKey EXCEPT ![r] =
                                    IF cmds # <<>> THEN cmds[1].key ELSE @]
                  /\ UNCHANGED <<cache, used, inserted>>
         [] OTHER -> UNCHANGED <<cache, redisQ, sets, storeKey, used, inserted>>
    /\ evicted' = evicted \cup (KeysOf(cache) \ KeysOf(cache'))

\* The downstream pipeline completes request r with response x: res.end()
\* emits 'end' and the one-shot listener of the store step runs.
Complete(r, x) ==
    /\ pc[r] = "downstream"
    /\ pc' = [pc EXCEPT ![r] = "completed"]
    /\ res' = [res EXCEPT ![r] = x]
    /\ EmitEnd(r, x)
    /\ UNCHANGED <<gate, req, redisDb, lookup, gets, unhandled, doneBefore, lookupKey>>

\* The completed response of r emits 'end' once more (res.end() is called
\* again downstream).
EndAgain(r) ==
    /\ pc[r] = "completed" /\ ends[r] < MaxEnds
    /\ EmitEnd(r, res[r])
    /\ UNCHANGED <<gate, req, pc, res, redisDb, lookup, gets, unhandled, doneBefore,
                   lookupKey>>

\* The downstream pipeline changes the request object of r before it answers
\* (a mounted router rewrites the path, a method override the method, a
\* middleware the headers).
Rewrite(r, q) ==
    /\ pc[r] = "downstream" /\ q # req[r]
    /\ req' = [req EXCEPT ![r] = q]
    /\ UNCHANGED <<gate, pc, res, onEnd, cache, redisDb, redisQ, lookup, gets, sets,
                   unhandled, doneBefore, evicted, lookupKey, storeKey, used, inserted, ends>>

\* An abort that emits 'end' all the same (as a listener on 'close' would
\* see it): the local store step runs on the unfinished response.
AbortEmitsEnd(r) ==
    /\ pc[r] = "downstream"
    /\ pc' = [pc EXCEPT ![r] = "aborted"]
    /\ LET o == IF onEnd[r] \in {"storeInLRUCacheMw", "storeMw"}
                THEN storeInLRUCacheMw(req[r], res[r], cache)
                ELSE Stored(cache, 0)
       IN  /\ cache' = o.cache
           /\ sets' = [sets EXCEPT ![r] = @ + o.sets]
    /\ UNCHANGED <<gate, req, res, onEnd, redisDb, redisQ, lookup, gets,
                   unhandled, doneBefore, evicted, lookupKey, storeKey, used, inserted, ends>>

\* The downstream pipeline never completes request r (client gone, timeout,
\* an error before res.end()): 'end' is never emitted.
Abort(r) ==
    /\ pc[r] = "downstream"
    /\ pc' = [pc EXCEPT ![r] = "aborted"]
    /\ UNCHANGED <<gate, req, res, onEnd, cache, redisDb, redisQ, lookup, gets, sets,
                   unhandled, doneBefore, evicted, lookupKey, storeKey, used, inserted, ends>>

Next ==
    \/ \E e \in CacheEngines : idempotency(e)
    \/ \E e \in CacheEngines : idempotencyLegacy(e)
    \/ \E r \in 1..MaxReq, q \in Requests : RequestLocal(r, q)
    \/ \E r \in 1..MaxReq, q \in Requests : RequestRedis(r, q)
    \/ RedisGetReply
    \/ RedisGetError
    \/ RedisSetReply
    \/ RedisSetError
    \/ \E r \in Reqs, x \in Responses : Complete(r, x)
    \/ \E r \in Reqs : Abort(r)

Spec == Init /\ [][Next]_vars

\* The local engine of index.js alone, with more requests, all with a token.
NextLocal ==
    \/ idempotency("lru")
    \/ \E r \in 1..MaxLocalReq, q \in {x \in Requests : Truthy(x.token)} :
          RequestLocal(r, q)
    \/ \E r \in Reqs, x \in Responses : Complete(r, x)
    \/ \E r \in Reqs : Abort(r)

SpecLocal == Init /\ [][NextLocal]_vars

\* Responses may emit 'end' more than once.
NextEnds ==
    \/ \E e \in CacheEngines : idempotency(e)
    \/ \E e \in CacheEngines : idempotencyLegacy(e)
    \/ \E r \in 1..MaxEndReq, q \in Requests : RequestLocal(r, q)
    \/ \E r \in 1..MaxEndReq, q \in Requests : RequestRedis(r, q)
    \/ RedisGetReply
    \/ RedisGetError
    \/ RedisSetReply
    \/ RedisSetError
    \/ \E r \in Reqs, x \in Responses : Complete(r, x)
    \/ \E r \in Reqs : EndAgain(r)
    \/ \E r \in Reqs : Abort(r)

SpecEnds == Init /\ [][NextEnds]_vars

\* The downstream pipeline may change the request object.
NextRewrite ==
    \/ \E e \in CacheEngines : idempotency(e)
    \/ \E e \in CacheEngines : idempotencyLegacy(e)
    \/ \E r \in 1..MaxEndReq, q \in Requests : RequestLocal(r, q)
    \/ \E r \in 1..MaxEndReq, q \in Requests : RequestRedis(r, q)
    \/ RedisGetReply
    \/ RedisGetError
    \/ RedisSetReply
    \/ RedisSetError
    \/ \E r \in Reqs, q \in Requests : Rewrite(r, q)
    \/ \E r \in Reqs, x \in Responses : Complete(r, x)
    \/ \E r \in Reqs : Abort(r)

SpecRewrite == Init /\ [][NextRewrite]_vars

\* ------------------------------------------------------------ properties
HasToken(r) == pc[r] # "idle" /\ Truthy(req[r].token)
KeyOf(r) == generateCacheKey(req[r], req[r].token)
\* The downstream pipeline was invoked for r.
WasForwarded(r) == pc[r] \in {"downstream", "completed", "aborted"}
\* The check step of r has decided (r is neither waiting for its lookup nor
\* lost to a failed one).
Decided(r) == pc[r] \in {"downstream", "completed", "aborted", "replayed"}
MarkedHit(rs) == <<"X-Cache", "HIT">> \in rs.headers.h
LocalGate == gate.status = "built" /\ gate.chain[2] # "checkInRedisMw"
RedisGate == gate.status = "built" /\ gate.chain[2] = "checkInRedisMw"
\* r2 is answered by the gate with the response x, marked as a replay.
ReplayOf(r2, x) ==
    /\ pc[r2] = "replayed"
    /\ res[r2].statusCode = x.statusCode
    /\ res[r2].body = x.body
    /\ res[r2].headers = SetHeader(x.headers, "X-Cache", "HIT")

\* C1: on the lru engine, a request that arrives after a request with the
\* same method, path and token has completed with response X (the entry not
\* having been evicted) is answered with X's status, headers and body and
\* with X-Cache: HIT.
C1_ReplayEquality ==
    \A r \in Reqs : \A r2 \in Reqs :
        (/\ gate.cacheEngine = "lru" /\ gate.file = "index.js"
         /\ r \in doneBefore[r2]
         /\ KeyOf(r2) \notin evicted)
            => ReplayOf(r2, res[r])

\* C2: two requests with the same cache key never both run in the downstream
\* pipeline: of two concurrent duplicates at most one is forwarded.
C2_ConcurrentDedup ==
    \A r \in Reqs : \A r2 \in Reqs :
        (r # r2 /\ HasToken(r) /\ HasToken(r2) /\ KeyOf(r) = KeyOf(r2))
            => ~(pc[r] = "downstream" /\ pc[r2] = "downstream")

\* C3: a request without an Idempotency-Key token causes no store read and
\* no store write, on either engine, and is
\* always forwarded; no store entry or command ever carries a key made from a
\* missing token.
C3_NoTokenPassthrough ==
    /\ \A r \in Reqs :
          (pc[r] # "idle" /\ ~Truthy(req[r].token))
              => /\ gets[r] = 0 /\ sets[r] = 0 /\ lookup[r] = "none"
                 /\ WasForwarded(r)
                 /\ \A i \in 1..Len(redisQ) : redisQ[i].r # r
    /\ KeysOf(cache) \subseteq Keys
    /\ \A i \in 1..Len(redisQ) : redisQ[i].key \in Keys

C3_Witness ==
    \E r \in Reqs : \E r2 \in Reqs :
        /\ ~Truthy(req[r].token) /\ pc[r] = "completed"
        /\ HasToken(r2) /\ pc[r2] = "completed" /\ sets[r2] = 1

\* C4: a request whose lookup found a stored response is answered by the
\* gate with X-Cache: HIT and never enters the downstream pipeline; a request
\* that entered the downstream pipeline had no hit and its response carries no
\* HIT indicator.
C4_HitReplaysInsteadOfForwarding ==
    \A r \in Reqs :
        /\ lookup[r] = "hit" => (pc[r] = "replayed" /\ MarkedHit(res[r]))
        /\ WasForwarded(r) => (lookup[r] # "hit" /\ ~MarkedHit(res[r]))

C4_Witness ==
    \E r \in Reqs : \E r2 \in Reqs :
        /\ lookup[r] = "hit" /\ pc[r] = "replayed"
        /\ pc[r2] = "completed" /\ lookup[r2] = "miss"

\* C5: on the redis engine a request whose lookup failed is still forwarded
\* to the downstream pipeline, and the failure escapes nowhere.
C5_LookupFailureDegrades ==
    \A r \in Reqs :
        lookup[r] = "failed"
            => (WasForwarded(r) /\ ~MarkedHit(res[r]) /\ <<r, "get">> \notin unhandled)

\* C6: on the redis engine a failed store write is caught: no error escapes
\* the completion handler.
C6_StoreFailureCaught ==
    \A r \in Reqs : <<r, "set">> \notin unhandled

\* C7: requests with the same token on different routes get different cache
\* keys, and every replay answers with the response of a completed request
\* that had the same method, path and token: a response stored for one route
\* is never replayed on another.
C7_ScopeIsolation ==
    /\ \A q1 \in Requests : \A q2 \in Requests :
          (/\ Truthy(q1.token) /\ q1.token = q2.token
           /\ <<q1.method, q1.path>> # <<q2.method, q2.path>>)
              => generateCacheKey(q1, q1.token) # generateCacheKey(q2, q2.token)
    /\ \A r2 \in Reqs :
          pc[r2] = "replayed"
              => \E r \in Reqs :
                    /\ pc[r] = "completed" /\ sets[r] = 1
                    /\ req[r] = req[r2]
                    /\ LocalGate => ReplayOf(r2, res[r])

C7_Witness ==
    \E r \in Reqs : \E r2 \in Reqs : \E r3 \in Reqs :
        /\ LocalGate
        /\ req[r].token = req[r2].token /\ req[r] # req[r2]
        /\ pc[r] = "completed" /\ pc[r2] = "completed" /\ res[r] # res[r2]
        /\ req[r3] = req[r] /\ ReplayOf(r3, res[r])

\* The check and store steps of the local engine, under either of their names.
LocalSteps == {<<"checkInLRUCacheMw", "storeInLRUCacheMw">>, <<"checkMw", "storeMw">>}
RedisSteps == {<<"checkInRedisMw", "storeInRedisMw">>}

\* What construction with gate.cacheEngine must have done.
FailsFastOrInstalls ==
    /\ gate.cacheEngine \notin {"lru", "redis"}
          => /\ gate.status = "threw" /\ gate.chain = <<>>
             /\ \A r \in Reqs : pc[r] = "idle"
    /\ gate.cacheEngine = "lru"
          => gate.status = "built" /\ SubSeq(gate.chain, 2, 3) \in LocalSteps
    /\ gate.cacheEngine = "redis"
          => gate.status = "built" /\ SubSeq(gate.chain, 2, 3) \in RedisSteps

C9_NoStoreWithoutCompletion ==
    /\ \A r \in Reqs :
          pc[r] \in {"aborted", "downstream"}
              => sets[r] = 0 /\ \A i \in 1..Len(redisQ) : redisQ[i].r # r
    /\ \A k \in KeysOf(cache) \cup {x \in Keys : redisDb[x] # Null} :
          \E r \in Reqs : pc[r] = "completed" /\ HasToken(r) /\ KeyOf(r) = k
    /\ \A r2 \in Reqs :
          (/\ HasToken(r2) /\ Decided(r2)
           /\ \A r \in Reqs \ {r2} : req[r] = req[r2] => pc[r] = "aborted")
              => lookup[r2] = "miss" /\ WasForwarded(r2)

C9_Witness ==
    \E r \in Reqs : \E r2 \in Reqs :
        /\ r < r2 /\ HasToken(r) /\ req[r] = req[r2]
        /\ pc[r] = "aborted" /\ pc[r2] = "completed" /\ lookup[r2] = "miss"
        /\ \A x \in Reqs \ {r, r2} : req[x] # req[r]

\* C10: on the redis engine, with no backend failure, a request that enters
\* the gate after a request with the same key has completed with response X
\* is answered with X as a HIT and is not forwarded.
C10_ReplayAfterCompletionRedis ==
    \A r \in Reqs : \A r2 \in Reqs :
        (RedisGate /\ unhandled = {} /\ r \in doneBefore[r2] /\ Decided(r2))
            => ReplayOf(r2, res[r])

\* The key of the local store that was looked up longest ago, or stored
\* longest ago when it was never looked up.
LeastRecentlyUsed == Head(SelectSeq(used, LAMBDA k : k \in KeysOf(cache)))

\* A step of the local gate stores a key that was absent.
StoresNewKey == KeysOf(cache') \ KeysOf(cache) # {}

\* C11: the local store never holds more than Capacity entries; a store of an
\* absent key into a full store leaves exactly Capacity entries, and the one
\* entry it removes is the least recently looked up (the least recently
\* stored when never looked up).
C11_EvictionBound ==
    /\ [](Len(cache) <= Capacity /\ Cardinality(KeysOf(cache)) = Len(cache))
    /\ [][(StoresNewKey /\ Len(cache) = Capacity)
             => /\ Len(cache') = Capacity
                /\ KeysOf(cache) \ KeysOf(cache') = {LeastRecentlyUsed}]_vars

\* A lookup changed which entry went: the key stored first (k1) was looked up
\* after the second (k2) was stored, and the store of a third removed k2.
C11_Witness ==
    /\ Len(cache) = Capacity /\ Len(inserted) > Capacity
    /\ inserted[1] \in KeysOf(cache)
    /\ inserted[2] \in evicted /\ inserted[2] \notin KeysOf(cache)
    /\ \E r \in Reqs : pc[r] = "replayed" /\ KeyOf(r) = inserted[1]
    /\ \A r \in Reqs : pc[r] = "completed" => sets[r] = 1 /\ gets[r] = 1

\* The store write of r has completed: the local cache.set has run, or the
\* remote set has been acknowledged.
StoreCompleted(r) ==
    /\ pc[r] = "completed" /\ sets[r] > 0
    /\ \A i \in 1..Len(redisQ) : ~(redisQ[i].r = r /\ redisQ[i].op = "set")
    /\ <<r, "set">> \notin unhandled

\* The value the store step of r handed to the store.
ValueWritten(r) ==
    IF RedisGate THEN toString(responseToStore(res[r])) ELSE responseToStore(res[r])

\* C12: a request answered with a HIT for key K replays the value that the
\* completed store of another request wrote under that same key K: it never
\* replays without such a store, nor from the store of another key alone.
C12_NoCrossKeyReplay ==
    \A r2 \in Reqs :
        (pc[r2] = "replayed" \/ lookup[r2] = "hit")
            => /\ pc[r2] = "replayed" /\ lookup[r2] = "hit"
               /\ \E r \in Reqs \ {r2} :
                     /\ StoreCompleted(r)
                     /\ storeKey[r] = lookupKey[r2] /\ storeKey[r] = KeyOf(r2)
                     /\ res[r2] = Replay(FreshRes, ValueWritten(r))

\* Two keys hold different responses and a third request is answered from
\* the store of its own key.
C12_Witness ==
    \E r \in Reqs : \E x \in Reqs : \E r2 \in Reqs :
        /\ LocalGate /\ StoreCompleted(r) /\ StoreCompleted(x)
        /\ storeKey[r] # storeKey[x] /\ res[r] # res[x]
        /\ pc[r2] = "replayed" /\ lookupKey[r2] = storeKey[r]
        /\ ReplayOf(r2, res[r]) /\ ~ReplayOf(r2, res[x])

\* C13: the key under which the captured response of a request is stored is
\* the key that was computed for its lookup, whatever happened to the
\* request's method, path or token in between.
C13_SameKeyForLookupAndStore ==
    \A r \in Reqs :
        (pc[r] = "completed" /\ lookupKey[r] # NoKey) => storeKey[r] = lookupKey[r]

\* C14: for a forwarded request with a token the capture-and-store step has
\* not run before the response ended, has run exactly once when it has ended,
\* and has still run exactly once when 'end' was emitted again.
C14_CaptureAtMostOnce ==
    \A r \in Reqs :
        (HasToken(r) /\ WasForwarded(r))
            => /\ sets[r] <= 1
               /\ (ends[r] = 0 <=> pc[r] # "completed")
               /\ (ends[r] = 0 => sets[r] = 0 /\ storeKey[r] = NoKey)
               /\ (ends[r] >= 1 => sets[r] = 1)

\* A response emitted 'end' twice and was captured once.
C14_Witness ==
    \E r \in Reqs :
        /\ HasToken(r) /\ pc[r] = "completed"
        /\ ends[r] >= 2 /\ sets[r] = 1 /\ storeKey[r] = KeyOf(r)

\* C15: no step of the gate takes a stored key out of the store: a key of
\* the remote store stays, and a key of the local store goes only in a step
\* that stores an absent key into the full store, every remaining entry
\* still holding a stored response.
C15_NeverProactiveDeletion ==
    [][/\ \A k \in Keys : redisDb[k] # Null => redisDb'[k] # Null
       /\ (KeysOf(cache) \ KeysOf(cache') # {})
             => /\ StoresNewKey /\ Len(cache) = Capacity
                /\ Cardinality(KeysOf(cache) \ KeysOf(cache')) = 1
       /\ \A k \in KeysOf(cache') : Truthy(Peek(cache', k))]_vars

\* A key was stored, read and replayed, another store followed, and the key
\* is still there.
C15_Witness ==
    \E r \in Reqs : \E r2 \in Reqs : \E x \in Reqs :
        /\ LocalGate /\ StoreCompleted(r) /\ StoreCompleted(x)
        /\ storeKey[r] # storeKey[x]
        /\ pc[r2] = "replayed" /\ lookupKey[r2] = storeKey[r]
        /\ x > r2
        /\ storeKey[r] \in KeysOf(cache) /\ storeKey[x] \in KeysOf(cache)

\* The get command of r has been sent and not answered.
GetPending(r) == \E i \in 1..Len(redisQ) : redisQ[i].r = r /\ redisQ[i].op = "get"

\* C16: on the redis engine a request with a token is neither forwarded nor
\* answered while its lookup is pending, and when the lookup returns, the
\* request is replayed if the returned value is a stored one and forwarded if
\* it is not (a lookup that fails decides nothing).
C16_AwaitBeforeDeciding ==
    /\ [](RedisGate =>
            \A r \in Reqs :
                HasToken(r) => /\ GetPending(r) <=> pc[r] = "awaitGet"
                               /\ pc[r] = "awaitGet" <=> lookup[r] = "pending"
                               /\ Decided(r) => gets[r] = 1 /\ lookup[r] \in {"hit", "miss"})
    /\ [][RedisGate =>
            \A r \in Reqs :
                (pc[r] = "awaitGet" /\ pc'[r] # "awaitGet")
                    => /\ Head(redisQ).r = r /\ Head(redisQ).op = "get"
                       /\ ~GetPending(r)'
                       /\ \/ pc'[r] = "rejected"
                          \/ /\ pc'[r] = "replayed" /\ lookup'[r] = "hit"
                             /\ Truthy(redisDb[lookupKey[r]])
                          \/ /\ pc'[r] = "downstream" /\ lookup'[r] = "miss"
                             /\ ~Truthy(redisDb[lookupKey[r]])]_vars

\* While the lookup of r (which will find a stored value) is pending, a later
\* request has come in, been forwarded and completed.
C16_Witness ==
    \E r \in Reqs : \E x \in Reqs :
        /\ RedisGate /\ HasToken(r) /\ pc[r] = "awaitGet" /\ GetPending(r)
        /\ Truthy(redisDb[lookupKey[r]])
        /\ x > r /\ pc[x] = "completed"

\* What the store holds under key k.
StoreEntry(k) == IF RedisGate THEN redisDb[k] ELSE Peek(cache, k)

\* The store entry v is the captured response of r: status code, headers and
\* body together.
CapturedBy(v, r) ==
    /\ Prop(v, "statusCode") = res[r].statusCode
    /\ Prop(v, "headers") = res[r].headers
    /\ Prop(v, "body") = res[r].body

\* C17: when two forwarded requests with the same key have completed with
\* different responses and their stores are done, the store entry of the key
\* is the captured response of one of the requests that stored under it.
C17_StoresNeverMerge ==
    \A r \in Reqs : \A x \in Reqs :
        (/\ r # x /\ StoreCompleted(r) /\ StoreCompleted(x)
         /\ storeKey[r] = storeKey[x] /\ res[r] # res[x]
         /\ storeKey[r] \notin evicted)
            => \E w \in Reqs :
                  /\ StoreCompleted(w) /\ storeKey[w] = storeKey[r]
                  /\ CapturedBy(StoreEntry(storeKey[r]), w)

\* A record the store returns that is no response object with a status
\* code, headers and a body.
Malformed(v) == Truthy(v) /\ v.t # "response"

\* C18: a request whose lookup returns a malformed record is treated as a
\* MISS and forwarded; it is not answered with a HIT made from that record.
C18_MalformedRecordIsMiss ==
    \A r \in Reqs :
        (/\ HasToken(r) /\ Decided(r) /\ lookupKey[r] # NoKey
         /\ Malformed(StoreEntry(lookupKey[r])))
            => /\ lookup[r] = "miss" /\ WasForwarded(r)
               /\ ~MarkedHit(res[r])

\* The set commands sent and not yet answered.
SetsPending == SelectSeq(redisQ, LAMBDA c : c.op = "set")

\* C19: a request answered with a HIT registers no 'end' listener and writes
\* nothing to the store; the step that replays leaves every stored value as
\* it was and sends no set command; no stored record carries the X-Cache: HIT
\* header of a replay.
C19_ReplayLeavesStoreUnchanged ==
    /\ [](\A r \in Reqs :
            pc[r] = "replayed"
                => /\ onEnd[r] = "none" /\ sets[r] = 0 /\ storeKey[r] = NoKey
                   /\ \A i \in 1..Len(redisQ) : redisQ[i].r # r)
    /\ [](\A k \in KeysOf(cache) : ~MarkedHit(Peek(cache, k)))
    /\ [][\A r \in Reqs :
            (pc[r] # "replayed" /\ pc'[r] = "replayed")
                => /\ redisDb' = redisDb
                   /\ SetsPending' = SetsPending
                   /\ \A k \in Keys : Peek(cache', k) = Peek(cache, k)]_vars

\* A stored response was replayed and the entry is still the response as it
\* was captured, without the header of the replay.
C19_Witness ==
    \E r \in Reqs : \E r2 \in Reqs :
        /\ LocalGate /\ StoreCompleted(r)
        /\ pc[r2] = "replayed" /\ lookupKey[r2] = storeKey[r]
        /\ MarkedHit(res[r2])
        /\ StoreEntry(storeKey[r]) = responseToStore(res[r])
        /\ ~MarkedHit(StoreEntry(storeKey[r]))

\* A response with an error status (4xx or 5xx).
IsError(x) == x.statusCode.t = "number" /\ x.statusCode.n >= 400

\* C20: a forwarded request with a token that completed with an error status
\* was stored like any other, and a request that enters with the same key
\* afterwards (the entry not evicted, no backend failure) is answered with
\* that error response as a HIT and is not forwarded.
C20_ErrorResponsesAreStored ==
    \A r \in Reqs : \A r2 \in Reqs :
        (/\ r \in doneBefore[r2] /\ IsError(res[r])
         /\ Decided(r2)
         /\ unhandled = {} /\ KeyOf(r2) \notin evicted)
            => /\ sets[r] = 1 /\ storeKey[r] = KeyOf(r2)
               /\ ~WasForwarded(r2)
               /\ ReplayOf(r2, res[r])

====
